---- MODULE Spec2Model ----
(***************************************************************************)
(* Model of scripts/download_student_images.py: the CLI driver (main), the *)
(* naming scheme (sanitize_school_name, student_folder_name), the task     *)
(* builder loop of main, and the download pool (ThreadPoolExecutor running *)
(* download_url).                                                          *)
(*                                                                         *)
(* Strings are sequences of one-character strings, so that formatting,     *)
(* parsing and sanitising are computed character by character.             *)
(***************************************************************************)
EXTENDS Integers, Sequences, FiniteSets, TLC

\* ------------------------------------------------------------------------
\* Bounds of the model
\* ------------------------------------------------------------------------
MaxLen == 4
\* longest school name drawn for sanitize_school_name

MaxStudents == 2
\* longest student list drawn for the task builder on its own

MaxWorkers == 2
\* largest --workers value drawn for the pool

\* ------------------------------------------------------------------------
\* Characters and strings
\* ------------------------------------------------------------------------
Lower == {"a","b","c","d","e","f","g","h","i","j","k","l","m",
          "n","o","p","q","r","s","t","u","v","w","x","y","z"}

Upper == {"A","B","C","D","E","F","G","H","I","J","K","L","M",
          "N","O","P","Q","R","S","T","U","V","W","X","Y","Z"}

DigitSeq == <<"0","1","2","3","4","5","6","7","8","9">>

DigitChars == {DigitSeq[i] : i \in 1..10}

\* \s of the re module (and str.split / str.strip whitespace)
IsSpace(c) == c \in {" ", "\t", "\n", "\r"}

\* [a-zA-Z0-9]
IsAlnum(c) == c \in Lower \cup Upper \cup DigitChars

\* the value Python's None takes where a string is expected; it is not a
\* sequence of characters of any alphabet used below
NoneStr == <<"None">>

\* truthiness of an optional string: None and "" are falsy
Truthy(s) == s # NoneStr /\ s # <<>>

DigitVal(c) == CHOOSE d \in 0..9 : DigitSeq[d + 1] = c

RECURSIVE NatToStr(_)
NatToStr(n) ==
    IF n < 10 THEN <<DigitSeq[n + 1]>>
    ELSE NatToStr(n \div 10) \o <<DigitSeq[(n % 10) + 1]>>

\* str(n) / f"{n}" of an int
IntToStr(n) == IF n < 0 THEN <<"-">> \o NatToStr(-n) ELSE NatToStr(n)

RECURSIVE DigitsToNat(_)
DigitsToNat(s) ==
    IF s = <<>> THEN 0
    ELSE 10 * DigitsToNat(SubSeq(s, 1, Len(s) - 1)) + DigitVal(s[Len(s)])

AllDigits(s) == s # <<>> /\ \A i \in 1..Len(s) : s[i] \in DigitChars

RECURSIVE LStrip(_)
LStrip(s) == IF s # <<>> /\ IsSpace(s[1]) THEN LStrip(Tail(s)) ELSE s

RECURSIVE RStrip(_)
RStrip(s) ==
    IF s # <<>> /\ IsSpace(s[Len(s)]) THEN RStrip(SubSeq(s, 1, Len(s) - 1)) ELSE s

\* str.strip()
Strip(s) == LStrip(RStrip(s))

\* int(s): optional surrounding whitespace, optional sign, decimal digits
ParseInt(s) ==
    LET t == Strip(s)
        signed == t # <<>> /\ t[1] \in {"+", "-"}
        body == IF signed THEN Tail(t) ELSE t
    IN IF AllDigits(body)
       THEN [ok |-> TRUE,
             val |-> IF signed /\ t[1] = "-" THEN -DigitsToNat(body) ELSE DigitsToNat(body)]
       ELSE [ok |-> FALSE, val |-> 0]

StartsWith(s, p) == Len(s) >= Len(p) /\ SubSeq(s, 1, Len(p)) = p

\* ------------------------------------------------------------------------
\* sanitize_school_name
\* ------------------------------------------------------------------------
\* re.sub(r"\s+", "_", s): every maximal run of whitespace becomes one "_"
RECURSIVE CollapseSpaces(_)
CollapseSpaces(s) ==
    IF s = <<>> THEN <<>>
    ELSE IF IsSpace(s[1]) THEN <<"_">> \o CollapseSpaces(LStrip(s))
    ELSE <<s[1]>> \o CollapseSpaces(Tail(s))

Unknown == <<"u","n","k","n","o","w","n">>

sanitize_school_name(name) ==
    IF ~Truthy(name) THEN Unknown
    ELSE LET kept == SelectSeq(name, LAMBDA c : IsAlnum(c) \/ IsSpace(c))
             clean == Strip(CollapseSpaces(kept))
         IN IF clean = <<>> THEN Unknown ELSE clean

\* ------------------------------------------------------------------------
\* student_folder_name
\* ------------------------------------------------------------------------
RECURSIVE TakeToken(_)
TakeToken(s) ==
    IF s = <<>> \/ IsSpace(s[1]) THEN <<>> ELSE <<s[1]>> \o TakeToken(Tail(s))

\* s.split()[0] when s.split() is not empty; <<>> stands for the empty list
\* (a token is never empty), on which [0] raises IndexError
SplitFirst(s) == TakeToken(LStrip(s))

OrUnknown(s) == IF Truthy(s) THEN s ELSE Unknown

\* (first_name or 'unknown').split()[0] raises IndexError
FolderNameRaises(first_name) == SplitFirst(OrUnknown(first_name)) = <<>>

At == <<"@">>

student_folder_name(first_name, age, grade, section, blood_group, student_id) ==
    <<"s","t","u","d","e","n","t">> \o At \o SplitFirst(OrUnknown(first_name))
        \o At \o IntToStr(age) \o At \o IntToStr(grade) \o At \o section
        \o At \o blood_group \o At \o student_id

\* ------------------------------------------------------------------------
\* Age derivation (main, the dob block)
\* ------------------------------------------------------------------------
IsLeap(y) == (y % 4 = 0 /\ y % 100 # 0) \/ y % 400 = 0

DaysInMonth(y, m) ==
    IF m = 2 THEN (IF IsLeap(y) THEN 29 ELSE 28)
    ELSE IF m \in {4, 6, 9, 11} THEN 30 ELSE 31

\* HH, HH:MM or HH:MM:SS
ValidTime(t) ==
    /\ Len(t) \in {2, 5, 8}
    /\ AllDigits(SubSeq(t, 1, 2)) /\ DigitsToNat(SubSeq(t, 1, 2)) < 24
    /\ Len(t) >= 5 =>
          t[3] = ":" /\ AllDigits(SubSeq(t, 4, 5)) /\ DigitsToNat(SubSeq(t, 4, 5)) < 60
    /\ Len(t) = 8 =>
          t[6] = ":" /\ AllDigits(SubSeq(t, 7, 8)) /\ DigitsToNat(SubSeq(t, 7, 8)) < 60

\* datetime.fromisoformat(dob) for strings of at most 19 characters
\* (YYYY-MM-DD, optionally one separator character and a time without
\* fraction or offset): ok is FALSE where it raises ValueError
fromisoformat(dob) ==
    LET y == DigitsToNat(SubSeq(dob, 1, 4))
        m == DigitsToNat(SubSeq(dob, 6, 7))
        d == DigitsToNat(SubSeq(dob, 9, 10))
        dateOk == /\ Len(dob) >= 10
                  /\ AllDigits(SubSeq(dob, 1, 4)) /\ dob[5] = "-"
                  /\ AllDigits(SubSeq(dob, 6, 7)) /\ dob[8] = "-"
                  /\ AllDigits(SubSeq(dob, 9, 10))
                  /\ y >= 1 /\ m \in 1..12 /\ d >= 1 /\ d <= DaysInMonth(y, m)
        timeOk == Len(dob) = 10 \/ (Len(dob) >= 12 /\ ValidTime(SubSeq(dob, 12, Len(dob))))
    IN IF dateOk /\ timeOk THEN [ok |-> TRUE, year |-> y] ELSE [ok |-> FALSE, year |-> 0]

\* AgeOf counting only completed years before the birthday
AgeOfBirthdayPending(dob, now_year) ==
    IF ~Truthy(dob) THEN 0
    ELSE IF fromisoformat(dob).ok THEN now_year - fromisoformat(dob).year - 1 ELSE 0

\* age = 0; if dob: try: age = now.year - fromisoformat(dob).year
\*                   except Exception: age = 0
AgeOf(dob, now_year) ==
    IF ~Truthy(dob) THEN 0
    ELSE IF fromisoformat(dob).ok THEN now_year - fromisoformat(dob).year ELSE 0

\* ------------------------------------------------------------------------
\* File name of a photo (main, the photo loop)
\* ------------------------------------------------------------------------
\* s.rfind(c), 1-based; 0 when c does not occur
RFind(s, c) ==
    IF \E i \in 1..Len(s) : s[i] = c
    THEN CHOOSE i \in 1..Len(s) : s[i] = c /\ \A j \in (i + 1)..Len(s) : s[j] # c
    ELSE 0

\* url.split('?')[0]
BeforeQuery(url) ==
    IF \E i \in 1..Len(url) : url[i] = "?"
    THEN SubSeq(url, 1, (CHOOSE i \in 1..Len(url) :
                            url[i] = "?" /\ \A j \in 1..(i - 1) : url[j] # "?") - 1)
    ELSE url

\* os.path.splitext(p)[1]
SplitExt(p) ==
    LET sepIndex == RFind(p, "/")
        dotIndex == RFind(p, ".")
    IN IF dotIndex > sepIndex /\ \E k \in (sepIndex + 1)..(dotIndex - 1) : p[k] # "."
       THEN SubSeq(p, dotIndex, Len(p))
       ELSE <<>>

Jpg == <<".","j","p","g">>

\* ext = splitext(url.split('?')[0])[1] or '.jpg'; if len(ext) > 5: ext = '.jpg'
ExtOf(url) ==
    LET ext == SplitExt(BeforeQuery(url))
    IN IF ext = <<>> \/ Len(ext) > 5 THEN Jpg ELSE ext

\* int(threading.get_ident()): the task builder runs in the main thread, so
\* every call of one run returns the same identifier
MainThreadIdent == 140

\* dict.get on a string-valued key
Get(d, k) == IF k \in DOMAIN d THEN d[k] ELSE NoneStr

\* url = p.get('photoPath') or p.get('secure_url') or p.get('url')
PhotoUrl(p) ==
    IF Truthy(Get(p, "photoPath")) THEN Get(p, "photoPath")
    ELSE IF Truthy(Get(p, "secure_url")) THEN Get(p, "secure_url")
    ELSE Get(p, "url")

Http == <<"h","t","t","p">>

\* Eligible without the startswith('http') test
EligibleAnyUrl(p) == Truthy(PhotoUrl(p))

\* not (not url or not url.startswith('http'))
Eligible(p) == Truthy(PhotoUrl(p)) /\ StartsWith(PhotoUrl(p), Http)

\* f"{num if num is not None else int(threading.get_ident())}{ext}"
FileName(p) ==
    (IF "photoNumber" \in DOMAIN p THEN IntToStr(p.photoNumber)
     ELSE IntToStr(MainThreadIdent)) \o ExtOf(PhotoUrl(p))

PathJoin(a, b) == a \o <<"/">> \o b

\* ------------------------------------------------------------------------
\* Inputs: what the backend, the operator and the environment can supply
\* ------------------------------------------------------------------------
OutRoot == <<"d","o","w","n","l","o","a","d","s">>

StudentsDir == <<"S","t","u","d","e","n","t","s">>

UrlA == <<"h","t","t","p",":","/","/","h","/","a",".","j","p","g">>

UrlB == <<"h","t","t","p","s",":","/","/","h","/","b",".","P","N","G","?","x","=","1">>

UrlC == <<"h","t","t","p",":","/","/","h","/","c">>

UrlD == <<"h","t","t","p",":","/","/","h","/","d",".","j","p","e","g","x">>

UrlFtp == <<"f","t","p",":","/","/","h","/","e",".","j","p","g">>

\* {'name': "St. Mary's School!", '_id': 'a1', 'schoolId': 'S1'}
School1 ==
    [name |-> <<"S","t","."," ","M","a","r","y","'","s"," ","S","c","h","o","o","l","!">>,
     _id |-> <<"a","1">>, schoolId |-> <<"S","1">>]

\* {'name': ' ', 'schoolId': 'S2'}
School2 == [name |-> <<" ">>, schoolId |-> <<"S","2">>]

\* outcomes of SESSION.get(schools_url) / r.raise_for_status() / r.json()
SchoolsResponses ==
    { [status |-> "transport_error"],
      [status |-> "http_error"],
      [status |-> "ok", body |-> [success |-> FALSE, data |-> <<School1>>]],
      [status |-> "ok", body |-> [data |-> <<School1>>]],
      [status |-> "ok", body |-> [success |-> TRUE]],
      [status |-> "ok", body |-> [success |-> TRUE, data |-> <<>>]],
      [status |-> "ok", body |-> [success |-> TRUE, data |-> <<School1, School2>>]] }

\* what input('Enter number: ') returns; Eof stands for input() raising EOFError
Eof == <<"EOF">>

Choices ==
    { <<"1">>, <<"2">>, <<" ","2"," ">>, <<"0">>, <<"3">>, <<"-","1">>,
      <<"x">>, <<"2",".","0">>, <<>>, Eof }

Jane ==
    [firstName |-> <<"J","a","n","e"," ","D","o","e">>,
     dob |-> <<"2","0","1","5","-","0","6","-","0","1">>,
     grade |-> 5, section |-> <<"B">>, bloodGroup |-> <<"O","+">>,
     studentId |-> <<"S","1","2","3">>,
     photos |-> << [photoPath |-> UrlA, photoNumber |-> 1],
                   [secure_url |-> UrlB, photoNumber |-> 2] >>]

\* no photos key, no studentId, no dob
Bob == [firstName |-> <<"B","o","b">>, id |-> <<"7">>]

\* photos present but none eligible: the first non-empty field is not http,
\* and a photo without any URL field
Cat ==
    [firstName |-> <<"C","a","t">>, studentId |-> <<"S","3">>,
     dob |-> <<"2","0","1","5","-","1","3","-","0","1">>,
     photos |-> << [photoPath |-> UrlFtp, secure_url |-> UrlA, photoNumber |-> 1],
                   [photoNumber |-> 2] >>]

\* two photos without photoNumber
Dan ==
    [firstName |-> <<"D","a","n">>, studentId |-> <<"S","4">>,
     photos |-> << [url |-> UrlA], [photoPath |-> <<>>, url |-> UrlC] >>]

Eve ==
    [firstName |-> <<"E","v","e">>, studentId |-> <<"S","5">>, grade |-> 0,
     dob |-> <<"2","0","1","0","-","1","2","-","3","1","T","1","0",":","0","0">>,
     photos |-> << [url |-> UrlD, photoNumber |-> 0] >>]

Fay ==
    [firstName |-> <<"F","a","y">>, studentId |-> <<"S","6">>,
     photos |-> << [photoPath |-> UrlC, photoNumber |-> 1],
                   [photoPath |-> UrlA, photoNumber |-> 2] >>]

\* firstName consisting of whitespace only
Blank ==
    [firstName |-> <<" ">>, studentId |-> <<"S","8">>,
     photos |-> << [url |-> UrlA, photoNumber |-> 1] >>]

\* every combination of the three URL fields of a photo, with and without a
\* photoNumber
UrlValues == {NoneStr, <<>>, UrlA, UrlFtp}

PhotoPool ==
    { [photoPath |-> a, secure_url |-> b, url |-> c] :
          a \in UrlValues, b \in {NoneStr, UrlB, UrlFtp}, c \in {NoneStr, UrlC} }

StudentPool ==
    {Jane, Bob, Cat, Dan, Eve, Fay, Blank}
        \cup { [firstName |-> <<"G">>, studentId |-> <<"S","9">>, photos |-> <<p>>] :
                 p \in PhotoPool }

\* student lists drawn for the task builder on its own
StudentLists == UNION { [1..n -> StudentPool] : n \in 0..MaxStudents }

\* outcomes of SESSION.post(export_url) / r.raise_for_status() / r.json()
ExportResponses ==
    { [status |-> "transport_error"],
      [status |-> "http_error"],
      [status |-> "ok", body |-> [success |-> FALSE]],
      [status |-> "ok", body |-> [data |-> <<Jane>>]],
      [status |-> "ok", body |-> [success |-> TRUE]],
      [status |-> "ok", body |-> [success |-> TRUE, data |-> <<Bob, Cat>>]],
      [status |-> "ok", body |-> [success |-> TRUE, data |-> <<Jane, Bob, Cat>>]],
      [status |-> "ok", body |-> [success |-> TRUE, data |-> <<Jane, Eve, Fay>>]],
      [status |-> "ok", body |-> [success |-> TRUE, data |-> <<Dan>>]],
      [status |-> "ok", body |-> [success |-> TRUE, data |-> <<Fay, Fay>>]],
      [status |-> "ok", body |-> [success |-> TRUE, data |-> <<Eve, Blank>>]] }

\* datetime.now().year
Years == {2024, 2025}

\* values of --workers (argparse type=int)
WorkerArgs == 0..MaxWorkers

\* ------------------------------------------------------------------------
\* Task builder (main, "Build download tasks")
\* ------------------------------------------------------------------------
NoneText == <<"N","o","n","e">>

\* student_folder = base_school_folder / student_folder_name(first, age, ...)
StudentFolder(base, s, year) ==
    PathJoin(base,
        student_folder_name(
            OrUnknown(Get(s, "firstName")),
            AgeOf(Get(s, "dob"), year),
            IF "grade" \in DOMAIN s THEN s.grade ELSE 0,
            IF Truthy(Get(s, "section")) THEN s.section ELSE <<"A">>,
            IF Truthy(Get(s, "bloodGroup")) THEN s.bloodGroup ELSE <<"N","A">>,
            IF Truthy(Get(s, "studentId")) THEN s.studentId
            ELSE IF "id" \in DOMAIN s THEN s.id ELSE NoneText))

\* photos = s.get('photos') or []
PhotosOf(s) == IF "photos" \in DOMAIN s THEN s.photos ELSE <<>>

\* the photo loop: tasks.append((url, target)) for every photo not skipped
RECURSIVE PhotoTasks(_, _)
PhotoTasks(folder, photos) ==
    IF photos = <<>> THEN <<>>
    ELSE (IF Eligible(photos[1])
          THEN << [url |-> PhotoUrl(photos[1]),
                   target |-> PathJoin(folder, FileName(photos[1]))] >>
          ELSE <<>>) \o PhotoTasks(folder, Tail(photos))

\* ------------------------------------------------------------------------
\* State
\* ------------------------------------------------------------------------
VARIABLES
    pc,             \* position of main
    now_year,       \* datetime.now().year
    schools,        \* the list of schools fetched
    idx,            \* index of the selected school (0-based)
    school_id,      \* str(school.get('_id') or school.get('schoolId'))
    school_name,    \* sanitize_school_name(school.get('name'))
    gets,           \* number of GETs of the school list
    posts,          \* the POSTs sent: school id and payload of each
    students,       \* the students exported
    si,             \* the student the builder loop is at (1-based)
    tasks,          \* the (url, target) list
    dirs,           \* directories that exist
    workers,        \* max_workers of the pool (0: no pool yet)
    tstate,         \* per task: pending, get, write, ok, failed
    runs,           \* per task: times a worker began download_url on it
    collected,      \* tasks whose future the as_completed loop has consumed
    success_count,
    files,          \* files on disk: path, url whose body it holds, complete
    summary,        \* the "Completed. s/t" line, once printed
    exit_code,      \* -1 while the process runs
    exit_reason,
    phases,         \* the phases main has entered, in order
    arg,            \* argument of a function applied on its own
    arg_src,        \* what arg was formatted from
    ret             \* its result

vars ==
    <<pc, now_year, schools, idx, school_id, school_name, gets, posts, students, si,
      tasks, dirs, workers, tstate, runs, collected, success_count, files, summary,
      exit_code, exit_reason, phases, arg, arg_src, ret>>

NoSummary == [succeeded |-> -1, total |-> -1]

\* the state after parse_args() and out_root.mkdir()
InitMain ==
    /\ schools = <<>> /\ idx = -1 /\ school_id = NoneStr /\ school_name = NoneStr
    /\ gets = 0 /\ posts = <<>> /\ students = <<>> /\ si = 1 /\ tasks = <<>>
    /\ dirs = {OutRoot} /\ workers = 0 /\ tstate = <<>> /\ runs = <<>>
    /\ collected = {} /\ success_count = 0 /\ files = {} /\ summary = NoSummary
    /\ exit_code = -1 /\ exit_reason = "" /\ phases = <<>>

Init ==
    /\ InitMain
    /\ pc = "list_schools"
    /\ now_year \in {2024}
    /\ arg = NoneStr /\ arg_src = NoneStr /\ ret = NoneStr

pureVars == <<arg, arg_src, ret>>

poolVars == <<workers, tstate, runs, collected, success_count, files, summary>>

buildVars == <<students, si, tasks, dirs>>

selVars == <<schools, idx, school_id, school_name>>

\* sys.exit(code), or an uncaught exception (traceback, exit status 1)
Exit(code, reason) ==
    /\ pc' = "exited"
    /\ exit_code' = code
    /\ exit_reason' = reason

Running(at) == pc = at /\ exit_code = -1

Success(body) == "success" \in DOMAIN body /\ body.success = TRUE

\* data.get('data') or []
DataOf(body) == IF "data" \in DOMAIN body THEN body.data ELSE <<>>

\* ------------------------------------------------------------------------
\* main: the metadata phases
\* ------------------------------------------------------------------------
\* "1. list schools": the GET, its checks, and the "No active schools" exit
ListSchools(r) ==
    /\ Running("list_schools")
    /\ gets' = gets + 1
    /\ phases' = Append(phases, "list")
    /\ IF r.status # "ok" \/ ~Success(r.body)
       THEN Exit(1, "list_schools_failed") /\ UNCHANGED schools
       ELSE IF DataOf(r.body) = <<>>
       THEN Exit(0, "no_schools") /\ UNCHANGED schools
       ELSE /\ schools' = DataOf(r.body)
            /\ pc' = "select"
            /\ UNCHANGED <<exit_code, exit_reason>>
    /\ UNCHANGED <<now_year, idx, school_id, school_name, posts>>
    /\ UNCHANGED <<buildVars, poolVars, pureVars>>

\* str(school.get('_id') or school.get('schoolId'))
SchoolId(school) ==
    IF Truthy(Get(school, "_id")) THEN school._id
    ELSE IF Truthy(Get(school, "schoolId")) THEN school.schoolId ELSE NoneText

\* int(choice) - 1 succeeds and the assert 0 <= idx < len(schools) passes
ValidChoice(choice, n) ==
    ParseInt(choice).ok /\ 0 <= ParseInt(choice).val - 1 /\ ParseInt(choice).val - 1 < n

\* input('Enter number: '), the validation, and the selection of the school
Select(choice) ==
    /\ Running("select")
    /\ phases' = Append(phases, "select")
    /\ IF choice = Eof
       THEN Exit(1, "uncaught_EOFError") /\ UNCHANGED <<idx, school_id, school_name>>
       ELSE IF ~ValidChoice(choice, Len(schools))
       THEN Exit(1, "invalid_choice") /\ UNCHANGED <<idx, school_id, school_name>>
       ELSE /\ idx' = ParseInt(choice).val - 1
            /\ school_id' = SchoolId(schools[ParseInt(choice).val])
            /\ school_name' = sanitize_school_name(Get(schools[ParseInt(choice).val], "name"))
            /\ pc' = "username"
            /\ UNCHANGED <<exit_code, exit_reason>>
    /\ UNCHANGED <<now_year, schools, gets, posts>>
    /\ UNCHANGED <<buildVars, poolVars, pureVars>>

Admin == <<"a","d","m","i","n">>

Secret == <<"p","w">>

\* username from --username, or from input('Admin username: '), which may
\* raise EOFError (not caught)
ReadUsername(how) ==
    /\ Running("username")
    /\ phases' = Append(phases, "username")
    /\ IF how = "eof"
       THEN Exit(1, "uncaught_EOFError")
       ELSE pc' = "password" /\ UNCHANGED <<exit_code, exit_reason>>
    /\ UNCHANGED <<now_year, selVars, gets, posts>>
    /\ UNCHANGED <<buildVars, poolVars, pureVars>>

\* password from --password, from the first prompt (input or getpass), from
\* the fallback prompt after the first one raised, or not at all when the
\* fallback raises too
ReadPassword(how) ==
    /\ Running("password")
    /\ phases' = Append(phases, "password")
    /\ IF how = "unreadable"
       THEN Exit(1, "password_unreadable")
       ELSE pc' = "export" /\ UNCHANGED <<exit_code, exit_reason>>
    /\ UNCHANGED <<now_year, selVars, gets, posts>>
    /\ UNCHANGED <<buildVars, poolVars, pureVars>>

BaseSchoolFolder == PathJoin(PathJoin(OutRoot, school_name), StudentsDir)

\* ExportStudents posting again after a failed export instead of exiting
ExportStudentsRetrying(r) ==
    /\ Running("export")
    /\ phases' = Append(phases, "export")
    /\ posts' = Append(posts, [school |-> school_id,
                               payload |-> [username |-> Admin, password |-> Secret]])
    /\ IF r.status # "ok" \/ ~Success(r.body)
       THEN UNCHANGED <<pc, exit_code, exit_reason, students, dirs>>
       ELSE /\ students' = DataOf(r.body)
            /\ dirs' = dirs \cup {PathJoin(OutRoot, school_name), BaseSchoolFolder}
            /\ pc' = "build"
            /\ UNCHANGED <<exit_code, exit_reason>>
    /\ UNCHANGED <<now_year, selVars, gets, si, tasks>>
    /\ UNCHANGED <<poolVars, pureVars>>

\* the POST of the payload, its checks, and ensure_dir(base_school_folder)
ExportStudents(r) ==
    /\ Running("export")
    /\ phases' = Append(phases, "export")
    /\ posts' = Append(posts, [school |-> school_id,
                               payload |-> [username |-> Admin, password |-> Secret]])
    /\ IF r.status # "ok" \/ ~Success(r.body)
       THEN Exit(1, "export_failed") /\ UNCHANGED <<students, dirs>>
       ELSE /\ students' = DataOf(r.body)
            /\ dirs' = dirs \cup {PathJoin(OutRoot, school_name), BaseSchoolFolder}
            /\ pc' = "build"
            /\ UNCHANGED <<exit_code, exit_reason>>
    /\ UNCHANGED <<now_year, selVars, gets, si, tasks>>
    /\ UNCHANGED <<poolVars, pureVars>>

\* ------------------------------------------------------------------------
\* main: the task builder loop, one student per step
\* ------------------------------------------------------------------------
\* BuildStudent creating the folder only of a student that yields a task
BuildStudentLazyDir ==
    /\ Running("build")
    /\ si <= Len(students)
    /\ ~FolderNameRaises(OrUnknown(Get(students[si], "firstName")))
    /\ dirs' = IF PhotoTasks(<<>>, PhotosOf(students[si])) = <<>> THEN dirs
               ELSE dirs \cup {StudentFolder(BaseSchoolFolder, students[si], now_year)}
    /\ tasks' = tasks \o PhotoTasks(StudentFolder(BaseSchoolFolder, students[si], now_year),
                                    PhotosOf(students[si]))
    /\ si' = si + 1
    /\ UNCHANGED <<pc, exit_code, exit_reason, phases>>
    /\ UNCHANGED <<now_year, selVars, gets, posts, students>>
    /\ UNCHANGED <<poolVars, pureVars>>

BuildStudent ==
    /\ Running("build")
    /\ si <= Len(students)
    /\ ~FolderNameRaises(OrUnknown(Get(students[si], "firstName")))
    /\ dirs' = dirs \cup {StudentFolder(BaseSchoolFolder, students[si], now_year)}
    /\ tasks' = tasks \o PhotoTasks(StudentFolder(BaseSchoolFolder, students[si], now_year),
                                    PhotosOf(students[si]))
    /\ si' = si + 1
    /\ UNCHANGED <<pc, exit_code, exit_reason, phases>>
    /\ UNCHANGED <<now_year, selVars, gets, posts, students>>
    /\ UNCHANGED <<poolVars, pureVars>>

\* student_folder_name raises IndexError (not caught): traceback, status 1
BuildRaises ==
    /\ Running("build")
    /\ si <= Len(students)
    /\ FolderNameRaises(OrUnknown(Get(students[si], "firstName")))
    /\ Exit(1, "uncaught_IndexError")
    /\ UNCHANGED <<now_year, selVars, gets, posts, phases>>
    /\ UNCHANGED <<buildVars, poolVars, pureVars>>

\* if not tasks: sys.exit(0)
NoTasks ==
    /\ Running("build")
    /\ si > Len(students)
    /\ tasks = <<>>
    /\ Exit(0, "no_tasks")
    /\ UNCHANGED <<now_year, selVars, gets, posts, phases>>
    /\ UNCHANGED <<buildVars, poolVars, pureVars>>

\* ------------------------------------------------------------------------
\* main: the download pool
\* ------------------------------------------------------------------------
TaskIds == 1..Len(tasks)

\* tasks a worker thread is executing download_url on
InFlight == {i \in DOMAIN tstate : tstate[i] \in {"get", "write"}}

Finished == {i \in DOMAIN tstate : tstate[i] \in {"ok", "failed"}}

\* ThreadPoolExecutor(max_workers=args.workers) and the submit of every task
PoolCreate(w) ==
    /\ Running("build")
    /\ si > Len(students)
    /\ tasks # <<>>
    /\ w > 0
    /\ workers' = w
    /\ tstate' = [i \in TaskIds |-> "pending"]
    /\ runs' = [i \in TaskIds |-> 0]
    /\ pc' = "pool"
    /\ phases' = Append(phases, "pool")
    /\ UNCHANGED <<exit_code, exit_reason, collected, success_count, files, summary>>
    /\ UNCHANGED <<now_year, selVars, gets, posts, buildVars, pureVars>>

\* ThreadPoolExecutor raises ValueError for max_workers <= 0 (not caught)
PoolCreateRaises(w) ==
    /\ Running("build")
    /\ si > Len(students)
    /\ tasks # <<>>
    /\ w <= 0
    /\ Exit(1, "uncaught_ValueError")
    /\ UNCHANGED <<now_year, selVars, gets, posts, phases>>
    /\ UNCHANGED <<buildVars, poolVars, pureVars>>

\* StartTask without the limit of max_workers threads
StartTaskUnbounded(i) ==
    /\ Running("pool")
    /\ i \in TaskIds
    /\ tstate[i] = "pending"
    /\ \A j \in 1..(i - 1) : tstate[j] # "pending"
    /\ tstate' = [tstate EXCEPT ![i] = "get"]
    /\ runs' = [runs EXCEPT ![i] = @ + 1]
    /\ UNCHANGED <<pc, exit_code, exit_reason, phases, workers, collected,
                   success_count, files, summary>>
    /\ UNCHANGED <<now_year, selVars, gets, posts, buildVars, pureVars>>

\* an idle worker thread takes the next task of the (FIFO) work queue; there
\* are never more than max_workers threads
StartTask(i) ==
    /\ Running("pool")
    /\ i \in TaskIds
    /\ tstate[i] = "pending"
    /\ \A j \in 1..(i - 1) : tstate[j] # "pending"
    /\ Cardinality(InFlight) < workers
    /\ tstate' = [tstate EXCEPT ![i] = "get"]
    /\ runs' = [runs EXCEPT ![i] = @ + 1]
    /\ UNCHANGED <<pc, exit_code, exit_reason, phases, workers, collected,
                   success_count, files, summary>>
    /\ UNCHANGED <<now_year, selVars, gets, posts, buildVars, pureVars>>

\* Respond with a failure cancelling the tasks still queued
RespondCancelling(i, o) ==
    /\ Running("pool")
    /\ i \in TaskIds
    /\ tstate[i] = "get"
    /\ tstate' = IF o = "ok" THEN [tstate EXCEPT ![i] = "write"]
                 ELSE [j \in TaskIds |->
                          IF j = i \/ tstate[j] = "pending" THEN "failed" ELSE tstate[j]]
    /\ UNCHANGED <<pc, exit_code, exit_reason, phases, workers, runs, collected,
                   success_count, files, summary>>
    /\ UNCHANGED <<now_year, selVars, gets, posts, buildVars, pureVars>>

\* download_url: resp = SESSION.get(url); resp.raise_for_status()
\* an exception is caught and the task returns False
Respond(i, o) ==
    /\ Running("pool")
    /\ i \in TaskIds
    /\ tstate[i] = "get"
    /\ tstate' = [tstate EXCEPT ![i] = IF o = "ok" THEN "write" ELSE "failed"]
    /\ UNCHANGED <<pc, exit_code, exit_reason, phases, workers, runs, collected,
                   success_count, files, summary>>
    /\ UNCHANGED <<now_year, selVars, gets, posts, buildVars, pureVars>>

FileAt(path, url, complete) == [path |-> path, url |-> url, complete |-> complete]

OtherFiles(path) == {f \in files : f.path # path}

\* download_url: with open(target, 'wb') as f: f.write(resp.content)
\* open creates or truncates the file; an exception in open or write is
\* caught and the task returns False
WriteFile(i, o) ==
    /\ Running("pool")
    /\ i \in TaskIds
    /\ tstate[i] = "write"
    /\ files' = IF o = "open_error" THEN files
                ELSE OtherFiles(tasks[i].target)
                        \cup {FileAt(tasks[i].target, tasks[i].url, o = "ok")}
    /\ tstate' = [tstate EXCEPT ![i] = IF o = "ok" THEN "ok" ELSE "failed"]
    /\ UNCHANGED <<pc, exit_code, exit_reason, phases, workers, runs, collected,
                   success_count, summary>>
    /\ UNCHANGED <<now_year, selVars, gets, posts, buildVars, pureVars>>

\* one iteration of "for fut in as_completed(futures)"
Collect(i) ==
    /\ Running("pool")
    /\ i \in Finished \ collected
    /\ collected' = collected \cup {i}
    /\ success_count' = IF tstate[i] = "ok" THEN success_count + 1 ELSE success_count
    /\ UNCHANGED <<pc, exit_code, exit_reason, phases, workers, tstate, runs, files, summary>>
    /\ UNCHANGED <<now_year, selVars, gets, posts, buildVars, pureVars>>

\* the loop has consumed every future, the with block has left (shutdown
\* waits for the workers), the summary is printed and main returns
Summary ==
    /\ Running("pool")
    /\ collected = TaskIds
    /\ InFlight = {}
    /\ summary' = [succeeded |-> success_count, total |-> Len(tasks)]
    /\ Exit(0, "completed")
    /\ UNCHANGED <<phases, workers, tstate, runs, collected, success_count, files>>
    /\ UNCHANGED <<now_year, selVars, gets, posts, buildVars, pureVars>>

Next ==
    \/ \E r \in SchoolsResponses : ListSchools(r)
    \/ \E c \in Choices : Select(c)
    \/ \E how \in {"flag", "prompt", "eof"} : ReadUsername(how)
    \/ \E how \in {"flag", "prompt", "fallback", "unreadable"} : ReadPassword(how)
    \/ \E r \in ExportResponses : ExportStudents(r)
    \/ BuildStudent
    \/ BuildRaises
    \/ NoTasks
    \/ \E w \in WorkerArgs : PoolCreate(w)
    \/ \E w \in WorkerArgs : PoolCreateRaises(w)
    \/ \E i \in TaskIds : StartTask(i)
    \/ \E i \in TaskIds, o \in {"ok", "transport_error", "http_error"} : Respond(i, o)
    \/ \E i \in TaskIds, o \in {"ok", "open_error", "write_error"} : WriteFile(i, o)
    \/ \E i \in TaskIds : Collect(i)
    \/ Summary

Spec == Init /\ [][Next]_vars

\* ------------------------------------------------------------------------
\* sanitize_school_name applied on its own
\* ------------------------------------------------------------------------
NameChars == {"a", "Z", "7", " ", "\t", "!", "_", "."}

Names == {NoneStr} \cup UNION { [1..n -> NameChars] : n \in 0..MaxLen }

InitSanitize ==
    /\ InitMain
    /\ pc = "sanitize"
    /\ now_year = 2024
    /\ arg \in Names /\ arg_src = NoneStr /\ ret = NoneStr

SanitizeCall ==
    /\ pc = "sanitize"
    /\ ret' = sanitize_school_name(arg)
    /\ pc' = "sanitized"
    /\ UNCHANGED <<now_year, selVars, gets, posts, buildVars, poolVars, exit_code,
                   exit_reason, phases, arg, arg_src>>

NextSanitize == SanitizeCall

SpecSanitize == InitSanitize /\ [][NextSanitize]_vars

\* ------------------------------------------------------------------------
\* The age derivation applied on its own
\* ------------------------------------------------------------------------
\* n in decimal, zero-padded on the left to at least w digits
Pad(n, w) ==
    LET t == NatToStr(n)
    IN IF Len(t) >= w THEN t ELSE [i \in 1..(w - Len(t)) |-> "0"] \o t

\* the date of birth the backend sends for year y, month m, day d
FormatDob(src) ==
    CASE src.form = "none" -> NoneStr
      [] src.form = "empty" -> <<>>
      [] src.form = "date" ->
            Pad(src.y, 4) \o <<"-">> \o Pad(src.m, 2) \o <<"-">> \o Pad(src.d, 2)
      [] src.form = "datetime" ->
            Pad(src.y, 4) \o <<"-">> \o Pad(src.m, 2) \o <<"-">> \o Pad(src.d, 2)
                \o <<"T","1","0",":","3","0">>
      [] src.form = "slashes" ->
            Pad(src.y, 4) \o <<"/">> \o Pad(src.m, 2) \o <<"/">> \o Pad(src.d, 2)
      [] src.form = "unpadded" ->
            NatToStr(src.y) \o <<"-">> \o NatToStr(src.m) \o <<"-">> \o NatToStr(src.d)

DobSources ==
    [ form : {"none", "empty", "date", "datetime", "slashes", "unpadded"},
      y : {0, 2015, 2016, 2024},
      m : {0, 1, 2, 6, 12, 13},
      d : {0, 1, 28, 29, 30, 31, 32} ]

InitAge ==
    /\ InitMain
    /\ pc = "age"
    /\ now_year \in Years
    /\ arg_src \in DobSources
    /\ arg = FormatDob(arg_src)
    /\ ret = NoneStr

AgeCall ==
    /\ pc = "age"
    /\ ret' = AgeOf(arg, now_year)
    /\ pc' = "aged"
    /\ UNCHANGED <<now_year, selVars, gets, posts, buildVars, poolVars, exit_code,
                   exit_reason, phases, arg, arg_src>>

NextAge == AgeCall

SpecAge == InitAge /\ [][NextAge]_vars

\* ------------------------------------------------------------------------
\* The task builder on its own: main after a successful export of any
\* student list
\* ------------------------------------------------------------------------
InitBuild ==
    /\ pc = "build"
    /\ now_year \in Years
    /\ schools = <<School1, School2>> /\ idx = 0
    /\ school_id = SchoolId(School1)
    /\ school_name = sanitize_school_name(School1.name)
    /\ gets = 1
    /\ posts = << [school |-> SchoolId(School1),
                   payload |-> [username |-> Admin, password |-> Secret]] >>
    /\ students \in StudentLists
    /\ si = 1 /\ tasks = <<>>
    /\ dirs = {OutRoot, PathJoin(OutRoot, sanitize_school_name(School1.name)),
               PathJoin(PathJoin(OutRoot, sanitize_school_name(School1.name)), StudentsDir)}
    /\ workers = 0 /\ tstate = <<>> /\ runs = <<>>
    /\ collected = {} /\ success_count = 0 /\ files = {} /\ summary = NoSummary
    /\ exit_code = -1 /\ exit_reason = ""
    /\ phases = <<"list", "select", "username", "password", "export">>
    /\ arg = NoneStr /\ arg_src = NoneStr /\ ret = NoneStr

NextBuild == BuildStudent \/ BuildRaises \/ NoTasks

SpecBuild == InitBuild /\ [][NextBuild]_vars

\* ------------------------------------------------------------------------
\* Properties
\* ------------------------------------------------------------------------
SucceededTasks == {i \in DOMAIN tstate : tstate[i] = "ok"}

UniqueTarget(i) == \A j \in TaskIds \ {i} : tasks[j].target # tasks[i].target

\* C1: pool isolation. No task is run more than once and a failed task was
\* run, not cancelled; once the summary is printed every task has been run
\* exactly once and has finished, total is the number of tasks built and
\* succeeded the number of tasks whose download succeeded; a succeeded task
\* whose destination no other task shares has its file on disk. With 5 tasks
\* of which only task 3 fails the summary is 4/5 and the other four files
\* exist.
C1_PoolIsolation ==
    /\ \A i \in DOMAIN runs : runs[i] <= 1
    /\ \A i \in DOMAIN tstate : tstate[i] = "failed" => runs[i] = 1
    /\ exit_reason = "completed" => summary # NoSummary
    /\ summary # NoSummary =>
          /\ \A i \in TaskIds : runs[i] = 1 /\ tstate[i] \in {"ok", "failed"}
          /\ summary.total = Len(tasks)
          /\ summary.succeeded = Cardinality(SucceededTasks)
          /\ \A i \in SucceededTasks :
                UniqueTarget(i) => FileAt(tasks[i].target, tasks[i].url, TRUE) \in files
    /\ (summary # NoSummary /\ Len(tasks) = 5 /\ SucceededTasks = {1, 2, 4, 5}) =>
          /\ summary = [succeeded |-> 4, total |-> 5]
          /\ \A i \in {1, 2, 4, 5} : \E f \in files : f.path = tasks[i].target /\ f.complete

C1_Witness ==
    /\ exit_reason = "completed"
    /\ Len(tasks) = 5
    /\ tstate[3] = "failed"
    /\ SucceededTasks = {1, 2, 4, 5}
    /\ summary = [succeeded |-> 4, total |-> 5]
    /\ Cardinality({f \in files : f.complete}) = 4

MetadataFetchFailures == {"list_schools_failed", "export_failed"}

\* what the operator supplies: the selection, the prompts, the options
InputFailures ==
    {"invalid_choice", "password_unreadable", "uncaught_EOFError", "uncaught_ValueError"}

\* C2: exit status. A run that has ended has status 1 exactly when a
\* metadata fetch failed or an operator input was rejected, and status 0
\* exactly when there were no schools, no tasks, or the pool finished.
C2_ExitStatus ==
    exit_code # -1 =>
        /\ exit_code \in {0, 1}
        /\ exit_code = 1 <=> exit_reason \in MetadataFetchFailures \cup InputFailures
        /\ exit_code = 0 <=> exit_reason \in {"no_schools", "no_tasks", "completed"}

UrlFields == <<"photoPath", "secure_url", "url">>

\* the URL fields of a photo that hold a non-empty value
FilledFields(p) ==
    {k \in 1..3 : UrlFields[k] \in DOMAIN p /\ p[UrlFields[k]] \notin {NoneStr, <<>>}}

\* the first non-empty of photoPath, secure_url, url is present and begins
\* with "http"
UsableHttpUrl(p) ==
    /\ FilledFields(p) # {}
    /\ LET k == CHOOSE x \in FilledFields(p) : \A y \in FilledFields(p) : x <= y
           u == p[UrlFields[k]]
       IN Len(u) >= 4 /\ u[1] = "h" /\ u[2] = "t" /\ u[3] = "t" /\ u[4] = "p"

\* the eligible photos of the first n students, as (student, photo) positions
EligiblePhotos(n) ==
    UNION { { <<i, j>> : j \in {k \in 1..Len(PhotosOf(students[i])) :
                                    UsableHttpUrl(PhotosOf(students[i])[k])} } :
            i \in 1..n }

\* C3: one task per eligible photo. While the builder runs, and when it has
\* ended, the number of tasks equals the number of eligible photos of the
\* students it has processed (all of them once the loop is over); every task
\* carries an http URL, so a photo without a usable URL or with a non-http
\* URL has no task.
C3_OneTaskPerEligiblePhoto ==
    /\ Len(tasks) = Cardinality(EligiblePhotos(si - 1))
    /\ \A t \in 1..Len(tasks) : StartsWith(tasks[t].url, Http)
    /\ (pc = "exited" /\ exit_reason = "no_tasks") =>
          Cardinality(EligiblePhotos(Len(students))) = 0

C3_Witness ==
    /\ pc = "build"
    /\ Len(students) = 2
    /\ si > Len(students)
    /\ Len(tasks) = 1
    /\ \E i \in 1..2 : \E j \in 1..Len(PhotosOf(students[i])) :
          /\ ~UsableHttpUrl(PhotosOf(students[i])[j])
          /\ FilledFields(PhotosOf(students[i])[j]) # {}

\* the scenario: 2 schools, school #2 selected, 3 students of which one has
\* 2 eligible photos and the others none, the builder has run
EndToEndScenario ==
    /\ schools = <<School1, School2>>
    /\ idx = 1
    /\ students = <<Jane, Bob, Cat>>
    /\ pc = "pool" \/ exit_reason = "completed"

StudentFolders == dirs \ {OutRoot, PathJoin(OutRoot, school_name), BaseSchoolFolder}

\* C4 as stated: the scenario creates exactly 2 student folders and 2 tasks,
\* and ends with summary 2/2 when both downloads succeed.
C4_TwoFolders ==
    EndToEndScenario =>
        /\ Cardinality(StudentFolders) = 2
        /\ Len(tasks) = 2
        /\ (exit_reason = "completed" /\ SucceededTasks = {1, 2}) =>
              summary = [succeeded |-> 2, total |-> 2]

\* C4 (amended): the scenario creates one folder per student, 3 in all, and
\* exactly 2 tasks, and ends with summary 2/2 when both downloads succeed.
C4_EndToEnd ==
    EndToEndScenario =>
        /\ Cardinality(StudentFolders) = 3
        /\ Len(tasks) = 2
        /\ (exit_reason = "completed" /\ SucceededTasks = {1, 2}) =>
              summary = [succeeded |-> 2, total |-> 2]

C4_Witness ==
    /\ EndToEndScenario
    /\ exit_reason = "completed"
    /\ SucceededTasks = {1, 2}
    /\ summary = [succeeded |-> 2, total |-> 2]
    /\ Cardinality(StudentFolders) = 3

IsSymbol(c) == ~IsAlnum(c) /\ ~IsSpace(c)

\* C5: sanitize_school_name returns only letters, digits and underscores,
\* and returns "unknown" for an empty, a whitespace-only and a fully
\* symbolic name.
C5_Sanitize ==
    pc = "sanitized" =>
        /\ \A i \in 1..Len(ret) : IsAlnum(ret[i]) \/ ret[i] = "_"
        /\ (\/ arg \in {NoneStr, <<>>}
            \/ \A i \in 1..Len(arg) : IsSpace(arg[i])
            \/ \A i \in 1..Len(arg) : IsSymbol(arg[i])) => ret = Unknown

Dob20150601 == <<"2","0","1","5","-","0","6","-","0","1">>

\* the source of the date of birth is a date of the calendar, sent in ISO form
\* (an unpadded date is in ISO form when no field needs padding)
SourceIsIsoDate ==
    /\ \/ arg_src.form \in {"date", "datetime"}
       \/ arg_src.form = "unpadded" /\ arg_src.y >= 1000 /\ arg_src.m >= 10 /\ arg_src.d >= 10
    /\ arg_src.y >= 1
    /\ arg_src.m \in 1..12
    /\ arg_src.d >= 1
    /\ \/ arg_src.d <= 28
       \/ arg_src.d <= 30 /\ arg_src.m # 2
       \/ arg_src.d = 31 /\ arg_src.m \in {1, 3, 5, 7, 8, 10, 12}
       \/ arg_src.d = 29 /\ arg_src.m = 2 /\ arg_src.y % 4 = 0
              /\ (arg_src.y % 100 # 0 \/ arg_src.y % 400 = 0)

\* C6 as stated: "2015-06-01" evaluated in 2024 gives age 14, and a missing
\* or unparseable date of birth gives 0.
C6_Age14 ==
    pc = "aged" =>
        /\ (arg = Dob20150601 /\ now_year = 2024) => ret = 14
        /\ ~SourceIsIsoDate => ret = 0

\* C6 (amended): the age is the current year minus the birth year, whatever
\* the month and day: "2015-06-01" evaluated in 2024 gives age 9; a missing
\* or unparseable date of birth gives 0.
C6_Age ==
    pc = "aged" =>
        /\ SourceIsIsoDate => ret = now_year - arg_src.y
        /\ (arg = Dob20150601 /\ now_year = 2024) => ret = 9
        /\ ~SourceIsIsoDate => ret = 0

C6_Witness == pc = "aged" /\ arg = Dob20150601 /\ now_year = 2024 /\ ret = 9

PhaseOrder == <<"list", "select", "username", "password", "export", "pool">>

IsPrefix(a, b) == Len(a) <= Len(b) /\ SubSeq(b, 1, Len(a)) = a

EarlyExits ==
    {"list_schools_failed", "no_schools", "invalid_choice", "uncaught_EOFError",
     "password_unreadable"}

\* C7: phase ordering. The phases are entered in the order list, select,
\* credentials, export, pool, each after the previous one succeeded; the
\* credentials are POSTed at most once, for the selected school, after the
\* single school-list GET; a pool, a download or a file exists only after a
\* successful export; after an exit before the export no POST was sent and
\* no download made.
C7_PhaseOrder ==
    /\ IsPrefix(phases, PhaseOrder)
    /\ Len(posts) <= 1
    /\ gets <= 1
    /\ Len(phases) >= 2 => gets = 1 /\ schools # <<>>
    /\ Len(phases) >= 3 => idx \in 0..(Len(schools) - 1)
    /\ Len(posts) = 1 =>
          /\ Len(phases) >= 5
          /\ posts[1].school = SchoolId(schools[idx + 1])
    /\ Len(posts) = 0 => students = <<>> /\ tasks = <<>>
    /\ (workers > 0 \/ tstate # <<>> \/ files # {}) =>
          /\ phases = PhaseOrder
          /\ Len(posts) = 1
          /\ si > Len(students)
    /\ exit_reason \in EarlyExits =>
          /\ posts = <<>>
          /\ tstate = <<>>
          /\ files = {}

C7_Witness ==
    /\ pc = "pool"
    /\ \E i \in TaskIds : tstate[i] = "get"
    /\ Len(posts) = 1
    /\ phases = PhaseOrder

\* C8: bounded concurrency. The number of tasks in flight never exceeds the
\* worker count of the pool, and the summary is printed (the driver is past
\* the pool) only when every submitted task has finished.
C8_BoundedConcurrency ==
    /\ tstate # <<>> => Cardinality(InFlight) <= workers
    /\ (summary # NoSummary \/ exit_reason = "completed") =>
          Finished = TaskIds /\ InFlight = {}

C8_Witness ==
    /\ pc = "pool"
    /\ workers >= 2
    /\ Cardinality(InFlight) = workers
    /\ \E i \in TaskIds : tstate[i] = "pending"

\* C9: a task reported as failed leaves no file at its destination, and a
\* task that returned True has its full body on disk (for a destination no
\* other task writes; no file exists before the run).
C9_NoFileOnFailure ==
    \A i \in DOMAIN tstate :
        UniqueTarget(i) =>
            /\ tstate[i] = "failed" => ~\E f \in files : f.path = tasks[i].target
            /\ tstate[i] = "ok" => FileAt(tasks[i].target, tasks[i].url, TRUE) \in files

\* C10: no two tasks of a run have the same destination path, no two workers
\* write the same file, and after a run in which all tasks succeed there are
\* as many files as tasks.
C10_DistinctTargets ==
    /\ \A i, j \in 1..Len(tasks) : i # j => tasks[i].target # tasks[j].target
    /\ \A i, j \in InFlight : i # j => tasks[i].target # tasks[j].target
    /\ (exit_reason = "completed" /\ SucceededTasks = TaskIds) =>
          Cardinality(files) = Len(tasks)

====
